---- MODULE Spec2Model ----
(***************************************************************************)
(* Guest-thread lifecycle of the Vita3K kernel (kernel/src/thread/         *)
(* thread.cpp): create_thread, start_thread with its delete_thread         *)
(* teardown closure, the thread_function trampoline, run_thread and        *)
(* raise_waiting_threads, as one state machine of host threads that        *)
(* interleave at every access to shared memory and every lock operation.   *)
(***************************************************************************)
EXTENDS Integers, Sequences, FiniteSets, TLC

\* ---------------------------------------------------------------- bounds
\* Thread records the model has room for: thread IDs are 1..MaxThreads.
MaxThreads == 3
\* create_thread calls made in one run of the kernel.
MaxCreated == 2
\* Host threads that call the kernel API (create_thread, start_thread, ...).
NumCallers == 2
\* Offsets tried around each base value of init_priority.
MaxPrioOffset == 4
\* Guest addresses are 0..AddrSpace-1 (Address arithmetic is modulo
\* AddrSpace, as uint32_t arithmetic is modulo 2^32).
AddrSpace == 10
\* Largest stack_size of a record.
MaxStack == 3
\* Values tried for option->attr and option->size.
MaxOptVal == 2
\* Blocks the allocator may return for a thread's TLS.
MaxBlocks == 4

\* ------------------------------------------------------------- processes
Tids == 1..MaxThreads
\* The host thread spawned for guest thread t is named t itself.
Hosts == Tids
Callers == (MaxThreads + 1)..(MaxThreads + NumCallers)
Procs == Hosts \cup Callers
\* Holder value of an unlocked mutex.
Free == 0

\* ThreadToDo
ToDo == {"run", "step", "wait", "exit"}

VARIABLES
    next_uid,            \* KernelState: value get_next_uid returns next
    k_threads,           \* kernel.threads (IDs that have a record)
    k_waiting_threads,   \* kernel.waiting_threads (created, not launched)
    k_running_threads,   \* kernel.running_threads (launched)
    k_mutex,             \* holder of kernel.mutex
    wait_for_debugger,   \* kernel.wait_for_debugger
    to_do,               \* ThreadState::to_do of each record
    waiting_threads,     \* ThreadState::waiting_threads of each record
    mutex,               \* holder of ThreadState::mutex of each record
    pc,                  \* position of every host thread in its code
    op,                  \* the API call a caller is in
    arg,                 \* thid a caller is working on
    ret,                 \* status the caller's last call returned
    sem,                 \* ThreadParams::host_may_destroy_params, per launch
    rsnap,               \* raise_waiting_threads: the range being iterated
    ri,                  \* raise_waiting_threads: position in that range
    rdone,               \* raise_waiting_threads: waiters signalled so far
    via,                 \* run_thread: branch taken at line 220
    res,                 \* run_thread: res
    succeeded,           \* thread_function: succeeded
    spawned,             \* host threads SDL_CreateThread has made, per ID
    aborted,             \* the process was terminated (abort, terminate)
    prio_in,             \* create_thread: init_priority under test
    prio_out,            \* create_thread: <<thread->priority>> once computed
    mem,                 \* MemState: the byte at each guest address
    stack,               \* copy_stack: stack base and stack_size of both records
    sp,                  \* copy_stack: stack pointer of both records' CPUs
    argp,                \* copy_stack: argp
    new_argp,            \* copy_stack: <<the pointer returned>> once returned
    option,              \* create_thread: <<*option>>, or <<>> when null
    cpu,                 \* create_thread: registers of thread->cpu
    cpu_context,         \* create_thread: <<thread->cpu_context>> once saved
    tls_block            \* create_thread: address alloc returns for the TLS

kvars == <<next_uid, k_threads, k_waiting_threads, k_running_threads>>
recvars == <<to_do, waiting_threads, mutex>>
raisevars == <<rsnap, ri, rdone>>
runvars == <<via, res, succeeded>>
priovars == <<prio_in, prio_out>>
copyvars == <<mem, stack, sp, argp, new_argp>>
ctxvars == <<option, cpu, cpu_context, tls_block>>
\* State of the functions that are also checked on their own.
auxvars == <<priovars, copyvars, ctxvars>>
vars == <<next_uid, k_threads, k_waiting_threads, k_running_threads, k_mutex,
          wait_for_debugger, to_do, waiting_threads, mutex, pc, op, arg, ret, sem,
          rsnap, ri, rdone, via, res, succeeded, spawned, aborted,
          prio_in, prio_out, mem, stack, sp, argp, new_argp,
          option, cpu, cpu_context, tls_block>>

\* ------------------------------------------------------------------ Init
\* KernelState and every ThreadState as constructed: no thread registered,
\* every record's to_do at its default (run), no waiter, no lock held.  The
\* debugger flag is process configuration, either value.
InitKernel ==
    /\ next_uid = 1
    /\ k_threads = {}
    /\ k_waiting_threads = {}
    /\ k_running_threads = {}
    /\ k_mutex = Free
    /\ wait_for_debugger \in BOOLEAN
    /\ to_do = [t \in Tids |-> "run"]
    /\ waiting_threads = [t \in Tids |-> <<>>]
    /\ mutex = [t \in Tids |-> Free]
    /\ pc = [p \in Procs |-> IF p \in Hosts THEN "h_none" ELSE "idle"]
    /\ op = [c \in Callers |-> "none"]
    /\ arg = [c \in Callers |-> 0]
    /\ ret = [c \in Callers |-> "none"]
    /\ sem = [t \in Tids |-> 0]
    /\ rsnap = [p \in Procs |-> <<>>]
    /\ ri = [p \in Procs |-> 1]
    /\ rdone = [p \in Procs |-> <<>>]
    /\ via = [t \in Tids |-> "none"]
    /\ res = [t \in Tids |-> 0]
    /\ succeeded = [t \in Tids |-> TRUE]
    /\ spawned = [t \in Tids |-> 0]
    /\ aborted = FALSE

\* No copy_stack call is followed: guest memory and the stacks are left
\* out.
CopyIdle ==
    /\ mem = <<>>
    /\ stack = <<>>
    /\ sp = <<>>
    /\ argp = 0
    /\ new_argp = <<>>

\* No create_thread set-up (lines 113-124) is being followed.
CtxIdle ==
    /\ option = <<>>
    /\ cpu = <<>>
    /\ cpu_context = <<>>
    /\ tls_block = 0

Init ==
    /\ InitKernel
    /\ prio_in = 0
    /\ prio_out = <<>>
    /\ CopyIdle
    /\ CtxIdle

\* something_to_do.notify_one / notify_all of record t: only the record's own
\* host thread ever waits on it (run_thread, line 242).
Notify(t) == IF pc[t] = "r_cvwait" THEN [pc EXCEPT ![t] = "r_woken"] ELSE pc

\* -------------------------------------------------------- create_thread
\* CreateBegin, had line 70 handed out the same ID again.
CreateBeginSameUid(c) ==
    /\ ~aborted
    /\ pc[c] = "idle"
    /\ next_uid <= MaxCreated
    /\ next_uid' = next_uid
    /\ \E cpu_ok \in BOOLEAN :
         IF cpu_ok
         THEN /\ pc' = [pc EXCEPT ![c] = "cr_lock"]
              /\ ret' = [ret EXCEPT ![c] = "none"]
         ELSE /\ pc' = [pc EXCEPT ![c] = "returned"]
              /\ ret' = [ret EXCEPT ![c] = "SCE_KERNEL_ERROR_ERROR"]
    /\ op' = [op EXCEPT ![c] = "create_thread"]
    /\ arg' = [arg EXCEPT ![c] = next_uid]
    /\ UNCHANGED <<k_threads, k_waiting_threads, k_running_threads, k_mutex,
                   wait_for_debugger, recvars, sem, raisevars, runvars, spawned, aborted, auxvars>>

\* Lines 70-105: take the ID, build the record, init_cpu.  A failed
\* init_cpu returns SCE_KERNEL_ERROR_ERROR before the kernel lock is taken.
CreateBegin(c) ==
    /\ ~aborted
    /\ pc[c] = "idle"
    /\ next_uid <= MaxCreated
    /\ next_uid' = next_uid + 1
    /\ \E cpu_ok \in BOOLEAN :
         IF cpu_ok
         THEN /\ pc' = [pc EXCEPT ![c] = "cr_lock"]
              /\ ret' = [ret EXCEPT ![c] = "none"]
         ELSE /\ pc' = [pc EXCEPT ![c] = "returned"]
              /\ ret' = [ret EXCEPT ![c] = "SCE_KERNEL_ERROR_ERROR"]
    /\ op' = [op EXCEPT ![c] = "create_thread"]
    /\ arg' = [arg EXCEPT ![c] = next_uid]
    /\ UNCHANGED <<k_threads, k_waiting_threads, k_running_threads, k_mutex,
                   wait_for_debugger, recvars, sem, raisevars, runvars, spawned, aborted, auxvars>>

\* CreateEmplaceThreads, had the lock_guard of line 128 covered line 129
\* only.
CreateEmplaceThreadsUnlocked(c) ==
    /\ ~aborted
    /\ pc[c] = "cr_lock"
    /\ k_mutex = Free
    /\ k_mutex' = Free
    /\ k_threads' = k_threads \cup {arg[c]}
    /\ pc' = [pc EXCEPT ![c] = "cr_emplaced"]
    /\ UNCHANGED <<next_uid, k_waiting_threads, k_running_threads,
                   wait_for_debugger, recvars, op, arg, ret, sem, raisevars,
                   runvars, spawned, aborted, auxvars>>

\* Lines 128-129: lock kernel.mutex, kernel.threads.emplace.
CreateEmplaceThreads(c) ==
    /\ ~aborted
    /\ pc[c] = "cr_lock"
    /\ k_mutex = Free
    /\ k_mutex' = c
    /\ k_threads' = k_threads \cup {arg[c]}
    /\ pc' = [pc EXCEPT ![c] = "cr_emplaced"]
    /\ UNCHANGED <<next_uid, k_waiting_threads, k_running_threads,
                   wait_for_debugger, recvars, op, arg, ret, sem, raisevars,
                   runvars, spawned, aborted, auxvars>>

\* Lines 130-133: kernel.waiting_threads.emplace, return thid (unlocks).
CreateEmplaceWaiting(c) ==
    /\ ~aborted
    /\ pc[c] = "cr_emplaced"
    /\ k_waiting_threads' = k_waiting_threads \cup {arg[c]}
    /\ k_mutex' = Free
    /\ ret' = [ret EXCEPT ![c] = "THID"]
    /\ pc' = [pc EXCEPT ![c] = "returned"]
    /\ UNCHANGED <<next_uid, k_threads, k_running_threads, wait_for_debugger,
                   recvars, op, arg, sem, raisevars, runvars, spawned,
                   aborted, auxvars>>

\* StartLockFind, had line 146 looked thid up in kernel.threads.
StartLockFindInTable(c, t) ==
    /\ ~aborted
    /\ pc[c] = "idle"
    /\ k_mutex = Free
    /\ op' = [op EXCEPT ![c] = "start_thread"]
    /\ arg' = [arg EXCEPT ![c] = t]
    /\ IF t \in k_threads
       THEN /\ k_mutex' = c
            /\ pc' = [pc EXCEPT ![c] = "st_spawn"]
            /\ ret' = [ret EXCEPT ![c] = "none"]
       ELSE /\ k_mutex' = k_mutex
            /\ pc' = [pc EXCEPT ![c] = "returned"]
            /\ ret' = [ret EXCEPT ![c] = "SCE_KERNEL_ERROR_UNKNOWN_THREAD_ID"]
    /\ UNCHANGED <<kvars, wait_for_debugger, recvars, sem, raisevars, runvars,
                   spawned, aborted, auxvars>>

\* --------------------------------------------------------- start_thread
\* Lines 144-149: lock kernel.mutex, look thid up in kernel.waiting_threads;
\* absent: return SCE_KERNEL_ERROR_UNKNOWN_THREAD_ID (unlocks).
StartLockFind(c, t) ==
    /\ ~aborted
    /\ pc[c] = "idle"
    /\ k_mutex = Free
    /\ op' = [op EXCEPT ![c] = "start_thread"]
    /\ arg' = [arg EXCEPT ![c] = t]
    /\ IF t \in k_waiting_threads
       THEN /\ k_mutex' = c
            /\ pc' = [pc EXCEPT ![c] = "st_spawn"]
            /\ ret' = [ret EXCEPT ![c] = "none"]
       ELSE /\ k_mutex' = k_mutex
            /\ pc' = [pc EXCEPT ![c] = "returned"]
            /\ ret' = [ret EXCEPT ![c] = "SCE_KERNEL_ERROR_UNKNOWN_THREAD_ID"]
    /\ UNCHANGED <<kvars, wait_for_debugger, recvars, sem, raisevars, runvars,
                   spawned, aborted, auxvars>>

\* Lines 172-175: SDL_CreateThread.  On success the host thread exists and
\* starts in thread_function.  On failure running_thread is a shared_ptr
\* that owns a null pointer together with delete_thread: "return
\* SCE_KERNEL_ERROR_THREAD_ERROR" destroys it, and a shared_ptr runs its
\* deleter on the pointer it owns even when that pointer is null, so
\* delete_thread(nullptr) runs before the kernel lock is released.
StartSpawn(c) ==
    /\ ~aborted
    /\ pc[c] = "st_spawn"
    /\ \E created \in BOOLEAN :
         IF created
         THEN /\ pc' = [pc EXCEPT ![c] = "st_erase", ![arg[c]] = "t_copy"]
              /\ spawned' = [spawned EXCEPT ![arg[c]] = @ + 1]
         ELSE /\ pc' = [pc EXCEPT ![c] = "del_lock"]
              /\ spawned' = spawned
    /\ UNCHANGED <<kvars, k_mutex, wait_for_debugger, recvars, op, arg, ret, sem,
                   raisevars, runvars, aborted, auxvars>>

\* StartErase, had line 177 run after the kernel lock was given up.
StartEraseUnlocked(c) ==
    /\ ~aborted
    /\ pc[c] = "st_erase"
    /\ k_waiting_threads' = k_waiting_threads \ {arg[c]}
    /\ k_mutex' = Free
    /\ pc' = [pc EXCEPT ![c] = "st_emplace"]
    /\ UNCHANGED <<next_uid, k_threads, k_running_threads,
                   wait_for_debugger, recvars, op, arg, ret, sem, raisevars,
                   runvars, spawned, aborted, auxvars>>

\* Line 177: kernel.waiting_threads.erase(waiting).
StartErase(c) ==
    /\ ~aborted
    /\ pc[c] = "st_erase"
    /\ k_waiting_threads' = k_waiting_threads \ {arg[c]}
    /\ pc' = [pc EXCEPT ![c] = "st_emplace"]
    /\ UNCHANGED <<next_uid, k_threads, k_running_threads, k_mutex,
                   wait_for_debugger, recvars, op, arg, ret, sem, raisevars,
                   runvars, spawned, aborted, auxvars>>

\* Line 178: kernel.running_threads.emplace(thid, running_thread).
StartEmplace(c) ==
    /\ ~aborted
    /\ pc[c] = "st_emplace"
    /\ k_running_threads' = k_running_threads \cup {arg[c]}
    /\ pc' = [pc EXCEPT ![c] = "st_semwait"]
    /\ UNCHANGED <<next_uid, k_threads, k_waiting_threads, k_mutex,
                   wait_for_debugger, recvars, op, arg, ret, sem, raisevars,
                   runvars, spawned, aborted, auxvars>>

\* StartSemWait, had start_thread returned without SDL_SemWait (line 179).
StartSemWaitNoWait(c) ==
    /\ ~aborted
    /\ pc[c] = "st_semwait"
    /\ sem' = sem
    /\ k_mutex' = Free
    /\ ret' = [ret EXCEPT ![c] = "SCE_KERNEL_OK"]
    /\ pc' = [pc EXCEPT ![c] = "returned"]
    /\ UNCHANGED <<kvars, wait_for_debugger, recvars, op, arg, raisevars, runvars,
                   spawned, aborted, auxvars>>

\* Lines 179-181: SDL_SemWait, return SCE_KERNEL_OK (unlocks).
StartSemWait(c) ==
    /\ ~aborted
    /\ pc[c] = "st_semwait"
    /\ sem[arg[c]] > 0
    /\ sem' = [sem EXCEPT ![arg[c]] = @ - 1]
    /\ k_mutex' = Free
    /\ ret' = [ret EXCEPT ![c] = "SCE_KERNEL_OK"]
    /\ pc' = [pc EXCEPT ![c] = "returned"]
    /\ UNCHANGED <<kvars, wait_for_debugger, recvars, op, arg, raisevars, runvars,
                   spawned, aborted, auxvars>>

\* The caller takes the returned status and goes on to its next call; the
\* finished call's locals are gone.
CallerResume(c) ==
    /\ ~aborted
    /\ pc[c] = "returned"
    /\ pc' = [pc EXCEPT ![c] = "idle"]
    /\ op' = [op EXCEPT ![c] = "none"]
    /\ arg' = [arg EXCEPT ![c] = 0]
    /\ ret' = [ret EXCEPT ![c] = "none"]
    /\ UNCHANGED <<kvars, k_mutex, wait_for_debugger, recvars, sem, raisevars,
                   runvars, spawned, aborted, auxvars>>

\* -------------------------------------------- delete_thread (lines 160-170)
\* Removing an entry of kernel.running_threads releases the ThreadPtr, which
\* runs delete_thread on the record.  The removal is the kernel's (its code
\* is outside this file); it mutates the running set under the kernel lock.
DestroyRunning(c, t) ==
    /\ ~aborted
    /\ pc[c] = "idle"
    /\ k_mutex = Free
    /\ t \in k_running_threads
    /\ k_running_threads' = k_running_threads \ {t}
    /\ op' = [op EXCEPT ![c] = "destroy"]
    /\ arg' = [arg EXCEPT ![c] = t]
    /\ ret' = [ret EXCEPT ![c] = "none"]
    /\ pc' = [pc EXCEPT ![c] = "del_lock"]
    /\ UNCHANGED <<next_uid, k_threads, k_waiting_threads, k_mutex,
                   wait_for_debugger, recvars, sem, raisevars, runvars, spawned, aborted, auxvars>>

\* delete_thread was handed a null running_thread exactly when it runs from
\* start_thread's failed launch (line 174).
NullRunningThread(c) == op[c] = "start_thread"

\* Lines 161-164: lock thread->mutex, to_do = exit, unlock.
DeleteSetExit(c) ==
    /\ ~aborted
    /\ pc[c] = "del_lock"
    /\ mutex[arg[c]] = Free
    /\ to_do' = [to_do EXCEPT ![arg[c]] = "exit"]
    /\ pc' = [pc EXCEPT ![c] = "del_notify"]
    /\ UNCHANGED <<kvars, k_mutex, wait_for_debugger, waiting_threads, mutex,
                   op, arg, ret, sem, raisevars, runvars, spawned, aborted,
                   auxvars>>

\* Line 165: thread->something_to_do.notify_all(), no lock held.
DeleteNotifyAll(c) ==
    /\ ~aborted
    /\ pc[c] = "del_notify"
    /\ pc' = [Notify(arg[c]) EXCEPT ![c] = "raise_begin"]
    /\ UNCHANGED <<kvars, k_mutex, wait_for_debugger, recvars, op, arg, ret, sem,
                   raisevars, runvars, spawned, aborted, auxvars>>

\* DeleteJoin, had delete_thread returned without SDL_WaitThread.
DeleteJoinNoWait(c) ==
    /\ ~aborted
    /\ pc[c] = "del_join"
    /\ IF NullRunningThread(c)
       THEN /\ k_mutex' = Free
            /\ ret' = [ret EXCEPT ![c] = "SCE_KERNEL_ERROR_THREAD_ERROR"]
       ELSE /\ k_mutex' = k_mutex
            /\ ret' = [ret EXCEPT ![c] = "DESTROYED"]
    /\ pc' = [pc EXCEPT ![c] = "returned"]
    /\ UNCHANGED <<kvars, wait_for_debugger, recvars, op, arg, sem, raisevars,
                   runvars, spawned, aborted, auxvars>>

\* Line 169: SDL_WaitThread(running_thread) returns once the host thread has
\* returned from thread_function (at once for a null running_thread); then
\* delete_thread returns.  From start_thread's failed launch the caller goes
\* on to return SCE_KERNEL_ERROR_THREAD_ERROR and unlock (lines 174, 181).
DeleteJoin(c) ==
    /\ ~aborted
    /\ pc[c] = "del_join"
    /\ NullRunningThread(c) \/ pc[arg[c]] = "h_done"
    /\ IF NullRunningThread(c)
       THEN /\ k_mutex' = Free
            /\ ret' = [ret EXCEPT ![c] = "SCE_KERNEL_ERROR_THREAD_ERROR"]
       ELSE /\ k_mutex' = k_mutex
            /\ ret' = [ret EXCEPT ![c] = "DESTROYED"]
    /\ pc' = [pc EXCEPT ![c] = "returned"]
    /\ UNCHANGED <<kvars, wait_for_debugger, recvars, op, arg, sem, raisevars,
                   runvars, spawned, aborted, auxvars>>

\* ------------------------------------ raise_waiting_threads (lines 135-141)
\* The record whose waiters process p raises: its own for a host thread
\* (line 64), the one being torn down for a caller (line 167).
RaiseTarget(p) == IF p \in Hosts THEN p ELSE arg[p]
\* Where p continues after raise_waiting_threads returns.
RaiseReturn(p) ==
    IF p \in Hosts THEN "t_ret"
    ELSE IF op[p] = "raise_waiting_threads" THEN "returned"
    ELSE "del_join"

\* raise_waiting_threads is part of the kernel's interface: some other part
\* of the kernel calls it on record t (the call site is outside this file).
RaiseCall(c, t) ==
    /\ ~aborted
    /\ pc[c] = "idle"
    /\ t \in k_threads
    /\ op' = [op EXCEPT ![c] = "raise_waiting_threads"]
    /\ arg' = [arg EXCEPT ![c] = t]
    /\ pc' = [pc EXCEPT ![c] = "raise_begin"]
    /\ UNCHANGED <<kvars, k_mutex, wait_for_debugger, recvars, ret, sem,
                   raisevars, runvars, spawned, aborted, auxvars>>

\* Line 136: the range-for takes begin() and end() of waiting_threads once.
RaiseBegin(p) ==
    /\ ~aborted
    /\ pc[p] = "raise_begin"
    /\ rsnap' = [rsnap EXCEPT ![p] = waiting_threads[RaiseTarget(p)]]
    /\ ri' = [ri EXCEPT ![p] = 1]
    /\ rdone' = [rdone EXCEPT ![p] = <<>>]
    /\ pc' = [pc EXCEPT ![p] =
                 IF waiting_threads[RaiseTarget(p)] = <<>>
                 THEN "raise_clear" ELSE "raise_lock"]
    /\ UNCHANGED <<kvars, k_mutex, wait_for_debugger, recvars, op, arg, ret, sem,
                   runvars, spawned, aborted, auxvars>>

\* Line 137: lock the waiter's mutex (a std::mutex: blocks while it is held,
\* by this very thread too).
RaiseLock(p) ==
    /\ ~aborted
    /\ pc[p] = "raise_lock"
    /\ mutex[rsnap[p][ri[p]]] = Free
    /\ mutex' = [mutex EXCEPT ![rsnap[p][ri[p]]] = p]
    /\ pc' = [pc EXCEPT ![p] = "raise_notify"]
    /\ UNCHANGED <<kvars, k_mutex, wait_for_debugger, to_do, waiting_threads,
                   op, arg, ret, sem, raisevars, runvars, spawned, aborted,
                   auxvars>>

\* Lines 138-139: t->something_to_do.notify_one(), unlock, next waiter.
RaiseNotify(p) ==
    /\ ~aborted
    /\ pc[p] = "raise_notify"
    /\ LET w == rsnap[p][ri[p]] IN
         /\ mutex' = [mutex EXCEPT ![w] = Free]
         /\ rdone' = [rdone EXCEPT ![p] = Append(@, w)]
         /\ pc' = [Notify(w) EXCEPT ![p] =
                      IF ri[p] < Len(rsnap[p])
                      THEN "raise_lock" ELSE "raise_clear"]
    /\ ri' = [ri EXCEPT ![p] = @ + 1]
    /\ UNCHANGED <<kvars, k_mutex, wait_for_debugger, to_do, waiting_threads,
                   op, arg, ret, sem, rsnap, runvars, spawned, aborted,
                   auxvars>>

\* RaiseClear, had line 140 been left out.
RaiseClearKeep(p) ==
    /\ ~aborted
    /\ pc[p] = "raise_clear"
    /\ waiting_threads' = waiting_threads
    /\ rsnap' = [rsnap EXCEPT ![p] = <<>>]
    /\ ri' = [ri EXCEPT ![p] = 1]
    /\ rdone' = [rdone EXCEPT ![p] = <<>>]
    /\ pc' = [pc EXCEPT ![p] = RaiseReturn(p)]
    /\ UNCHANGED <<kvars, k_mutex, wait_for_debugger, to_do, mutex, op, arg, ret,
                   sem, runvars, spawned, aborted, auxvars>>

\* Line 140: thread->waiting_threads.clear(), return.
RaiseClear(p) ==
    /\ ~aborted
    /\ pc[p] = "raise_clear"
    /\ waiting_threads' = [waiting_threads EXCEPT ![RaiseTarget(p)] = <<>>]
    /\ rsnap' = [rsnap EXCEPT ![p] = <<>>]
    /\ ri' = [ri EXCEPT ![p] = 1]
    /\ rdone' = [rdone EXCEPT ![p] = <<>>]
    /\ pc' = [pc EXCEPT ![p] = RaiseReturn(p)]
    /\ UNCHANGED <<kvars, k_mutex, wait_for_debugger, to_do, mutex, op, arg, ret,
                   sem, runvars, spawned, aborted, auxvars>>

\* ------------------------------------------ thread_function (lines 46-67)
\* Line 48: copy *data (start_thread's params) into the trampoline's frame.
ThreadCopyParams(t) ==
    /\ ~aborted
    /\ pc[t] = "t_copy"
    /\ pc' = [pc EXCEPT ![t] = "t_post"]
    /\ UNCHANGED <<kvars, k_mutex, wait_for_debugger, recvars, op, arg, ret, sem,
                   raisevars, runvars, spawned, aborted, auxvars>>

\* Line 49: SDL_SemPost(host_may_destroy_params).
ThreadSemPost(t) ==
    /\ ~aborted
    /\ pc[t] = "t_post"
    /\ sem' = [sem EXCEPT ![t] = @ + 1]
    /\ pc' = [pc EXCEPT ![t] = "t_find"]
    /\ UNCHANGED <<kvars, k_mutex, wait_for_debugger, recvars, op, arg, ret,
                   raisevars, runvars, spawned, aborted, auxvars>>

\* Lines 50-52: lock_and_find (lock kernel.mutex, find, unlock), then the
\* two write_reg calls on the thread's own CPU.
ThreadLockAndFind(t) ==
    /\ ~aborted
    /\ pc[t] = "t_find"
    /\ k_mutex = Free
    /\ t \in k_threads
    /\ pc' = [pc EXCEPT ![t] = "t_dbg"]
    /\ UNCHANGED <<kvars, k_mutex, wait_for_debugger, recvars, op, arg, ret, sem,
                   raisevars, runvars, spawned, aborted, auxvars>>

\* Line 53: read kernel.wait_for_debugger (no lock).
ThreadReadDebugger(t) ==
    /\ ~aborted
    /\ pc[t] = "t_dbg"
    /\ pc' = [pc EXCEPT ![t] =
                 IF wait_for_debugger THEN "t_dbg_wait" ELSE "r_lock"]
    /\ UNCHANGED <<kvars, k_mutex, wait_for_debugger, recvars, op, arg, ret, sem,
                   raisevars, runvars, spawned, aborted, auxvars>>

\* Line 54: thread->to_do = wait (thread->mutex not held).
ThreadDebuggerWait(t) ==
    /\ ~aborted
    /\ pc[t] = "t_dbg_wait"
    /\ to_do' = [to_do EXCEPT ![t] = "wait"]
    /\ pc' = [pc EXCEPT ![t] = "t_dbg_clear"]
    /\ UNCHANGED <<kvars, k_mutex, wait_for_debugger, waiting_threads, mutex,
                   op, arg, ret, sem, raisevars, runvars, spawned, aborted,
                   auxvars>>

\* Line 56: kernel.wait_for_debugger = false (no lock).
ThreadDebuggerClear(t) ==
    /\ ~aborted
    /\ pc[t] = "t_dbg_clear"
    /\ wait_for_debugger' = FALSE
    /\ pc' = [pc EXCEPT ![t] = "r_lock"]
    /\ UNCHANGED <<kvars, k_mutex, recvars, op, arg, ret, sem, raisevars, runvars,
                   spawned, aborted, auxvars>>

\* ---------------------------------------------- run_thread (lines 207-246)
\* Whether run_thread's unique_lock owns thread.mutex: inside run_thread the
\* host thread holds no other record's lock.
OwnsLock(t) == mutex[t] = t

\* Line 209: std::unique_lock<std::mutex> lock(thread.mutex).
RunLock(t) ==
    /\ ~aborted
    /\ pc[t] = "r_lock"
    /\ mutex[t] = Free
    /\ mutex' = [mutex EXCEPT ![t] = t]
    /\ pc' = [pc EXCEPT ![t] = "r_switch"]
    /\ UNCHANGED <<kvars, k_mutex, wait_for_debugger, to_do, waiting_threads,
                   op, arg, ret, sem, raisevars, runvars, spawned, aborted,
                   auxvars>>

\* Line 211, case exit (lines 212-213): return true; the unique_lock's
\* destructor unlocks if it owns the mutex.
RunSwitchExit(t) ==
    /\ ~aborted
    /\ pc[t] = "r_switch"
    /\ to_do[t] = "exit"
    /\ mutex' = [mutex EXCEPT ![t] = IF OwnsLock(t) THEN Free ELSE @]
    /\ succeeded' = [succeeded EXCEPT ![t] = TRUE]
    /\ pc' = [pc EXCEPT ![t] = "t_assert"]
    /\ UNCHANGED <<kvars, k_mutex, wait_for_debugger, to_do, waiting_threads,
                   op, arg, ret, sem, raisevars, via, res, spawned, aborted,
                   auxvars>>

\* Line 211, cases run and step (lines 214-216): lock.unlock().  unlock() on
\* a unique_lock that does not own its mutex throws std::system_error, which
\* nothing catches: std::terminate ends the process.
RunSwitchRunStep(t) ==
    /\ ~aborted
    /\ pc[t] = "r_switch"
    /\ to_do[t] \in {"run", "step"}
    /\ IF OwnsLock(t)
       THEN /\ mutex' = [mutex EXCEPT ![t] = Free]
            /\ pc' = [pc EXCEPT ![t] = "r_check_step"]
            /\ aborted' = aborted
       ELSE /\ mutex' = mutex
            /\ pc' = [pc EXCEPT ![t] = "h_terminated"]
            /\ aborted' = TRUE
    /\ UNCHANGED <<kvars, k_mutex, wait_for_debugger, to_do, waiting_threads,
                   op, arg, ret, sem, raisevars, runvars, spawned,
                   auxvars>>

\* Line 211, case wait (lines 241-242): something_to_do.wait(lock) releases
\* the lock and blocks.  wait() on a lock that is not owned is undefined:
\* the call either ends the process or blocks without releasing anything.
RunSwitchWait(t) ==
    /\ ~aborted
    /\ pc[t] = "r_switch"
    /\ to_do[t] = "wait"
    /\ IF OwnsLock(t)
       THEN /\ mutex' = [mutex EXCEPT ![t] = Free]
            /\ pc' = [pc EXCEPT ![t] = "r_cvwait"]
            /\ aborted' = aborted
       ELSE /\ mutex' = mutex
            /\ \/ (pc' = [pc EXCEPT ![t] = "r_cvwait"] /\ aborted' = aborted)
               \/ (pc' = [pc EXCEPT ![t] = "h_terminated"] /\ aborted' = TRUE)
    /\ UNCHANGED <<kvars, k_mutex, wait_for_debugger, to_do, waiting_threads,
                   op, arg, ret, sem, raisevars, runvars, spawned,
                   auxvars>>

\* std::condition_variable::wait may return without a notification.
RunSpuriousWake(t) ==
    /\ ~aborted
    /\ pc[t] = "r_cvwait"
    /\ pc' = [pc EXCEPT ![t] = "r_woken"]
    /\ UNCHANGED <<kvars, k_mutex, wait_for_debugger, recvars, op, arg, ret, sem,
                   raisevars, runvars, spawned, aborted, auxvars>>

\* Lines 242-243: wait() re-acquires the lock before it returns; break.
RunWake(t) ==
    /\ ~aborted
    /\ pc[t] = "r_woken"
    /\ mutex[t] = Free
    /\ mutex' = [mutex EXCEPT ![t] = t]
    /\ pc' = [pc EXCEPT ![t] = "r_switch"]
    /\ UNCHANGED <<kvars, k_mutex, wait_for_debugger, to_do, waiting_threads,
                   op, arg, ret, sem, raisevars, runvars, spawned, aborted,
                   auxvars>>

\* Line 220: read thread.to_do again, the lock released.
RunCheckStep(t) ==
    /\ ~aborted
    /\ pc[t] = "r_check_step"
    /\ via' = [via EXCEPT ![t] = IF to_do[t] = "step" THEN "step" ELSE "run"]
    /\ pc' = [pc EXCEPT ![t] = "r_backend"]
    /\ UNCHANGED <<kvars, k_mutex, wait_for_debugger, recvars, op, arg, ret, sem,
                   raisevars, res, succeeded, spawned, aborted,
                   auxvars>>

\* Results of the CPU backend's run() and step(): a failure or a success.
BackendResults == {-1, 0}

\* Lines 221-222: res = step(...), then thread.to_do = wait (no lock).
RunStep(t) ==
    /\ ~aborted
    /\ pc[t] = "r_backend"
    /\ via[t] = "step"
    /\ \E r \in BackendResults : res' = [res EXCEPT ![t] = r]
    /\ to_do' = [to_do EXCEPT ![t] = "wait"]
    /\ pc' = [pc EXCEPT ![t] = "r_check_res"]
    /\ UNCHANGED <<kvars, k_mutex, wait_for_debugger, waiting_threads, mutex,
                   op, arg, ret, sem, raisevars, via, succeeded, spawned,
                   aborted, auxvars>>

\* Line 225: res = run(...).
RunRun(t) ==
    /\ ~aborted
    /\ pc[t] = "r_backend"
    /\ via[t] = "run"
    /\ \E r \in BackendResults : res' = [res EXCEPT ![t] = r]
    /\ pc' = [pc EXCEPT ![t] = "r_check_res"]
    /\ UNCHANGED <<kvars, k_mutex, wait_for_debugger, recvars, op, arg, ret, sem,
                   raisevars, via, succeeded, spawned, aborted,
                   auxvars>>

\* RunCheckRes, had line 237 come before line 232.
RunCheckResStepFirst(t) ==
    /\ ~aborted
    /\ pc[t] = "r_check_res"
    /\ IF to_do[t] = "step"
       THEN /\ to_do' = to_do
            /\ succeeded' = succeeded
            /\ pc' = [pc EXCEPT ![t] = "r_switch"]
       ELSE IF res[t] < 0
       THEN /\ to_do' = [to_do EXCEPT ![t] = "exit"]
            /\ succeeded' = [succeeded EXCEPT ![t] = FALSE]
            /\ pc' = [pc EXCEPT ![t] = "t_assert"]
       ELSE /\ to_do' = to_do
            /\ succeeded' = [succeeded EXCEPT ![t] = TRUE]
            /\ pc' = [pc EXCEPT ![t] = "t_assert"]
    /\ via' = [via EXCEPT ![t] = "none"]
    /\ res' = [res EXCEPT ![t] = 0]
    /\ UNCHANGED <<kvars, k_mutex, wait_for_debugger, waiting_threads, mutex,
                   op, arg, ret, sem, raisevars, spawned, aborted,
                   auxvars>>

\* Lines 232-240 (USE_GDBSTUB not defined): a negative res sets to_do = exit
\* and returns false; otherwise to_do == step breaks out of the switch, back
\* to line 211 with the lock released, and anything else returns true.  res
\* is not read again before line 221 or 225 assigns it.
RunCheckRes(t) ==
    /\ ~aborted
    /\ pc[t] = "r_check_res"
    /\ IF res[t] < 0
       THEN /\ to_do' = [to_do EXCEPT ![t] = "exit"]
            /\ succeeded' = [succeeded EXCEPT ![t] = FALSE]
            /\ pc' = [pc EXCEPT ![t] = "t_assert"]
       ELSE /\ to_do' = to_do
            /\ IF to_do[t] = "step"
               THEN /\ succeeded' = succeeded
                    /\ pc' = [pc EXCEPT ![t] = "r_switch"]
               ELSE /\ succeeded' = [succeeded EXCEPT ![t] = TRUE]
                    /\ pc' = [pc EXCEPT ![t] = "t_assert"]
    /\ via' = [via EXCEPT ![t] = "none"]
    /\ res' = [res EXCEPT ![t] = 0]
    /\ UNCHANGED <<kvars, k_mutex, wait_for_debugger, waiting_threads, mutex,
                   op, arg, ret, sem, raisevars, spawned, aborted,
                   auxvars>>

\* ------------------------------------- thread_function, after run_thread
\* Lines 59-60: assert(succeeded) ends the process when it fails, unless
\* the build defines NDEBUG; read_reg of the thread's own CPU.  succeeded is
\* not read after the assert.
ThreadAssert(t) ==
    /\ ~aborted
    /\ pc[t] = "t_assert"
    /\ \/ /\ pc' = [pc EXCEPT ![t] = "t_lock_exit"]
          /\ succeeded' = [succeeded EXCEPT ![t] = TRUE]
          /\ aborted' = aborted
       \/ /\ ~succeeded[t]
          /\ pc' = [pc EXCEPT ![t] = "h_terminated"]
          /\ succeeded' = succeeded
          /\ aborted' = TRUE
    /\ UNCHANGED <<kvars, k_mutex, wait_for_debugger, recvars, op, arg, ret, sem,
                   raisevars, via, res, spawned, auxvars>>

\* Lines 62-63: lock_guard on thread->mutex, to_do = exit; line 64 calls
\* raise_waiting_threads with the lock held.
ThreadLockExit(t) ==
    /\ ~aborted
    /\ pc[t] = "t_lock_exit"
    /\ mutex[t] = Free
    /\ mutex' = [mutex EXCEPT ![t] = t]
    /\ to_do' = [to_do EXCEPT ![t] = "exit"]
    /\ pc' = [pc EXCEPT ![t] = "raise_begin"]
    /\ UNCHANGED <<kvars, k_mutex, wait_for_debugger, waiting_threads, op, arg,
                   ret, sem, raisevars, runvars, spawned, aborted,
                   auxvars>>

\* Line 66: return r0; the lock_guard unlocks, the host thread ends.
ThreadReturn(t) ==
    /\ ~aborted
    /\ pc[t] = "t_ret"
    /\ mutex' = [mutex EXCEPT ![t] = Free]
    /\ pc' = [pc EXCEPT ![t] = "h_done"]
    /\ UNCHANGED <<kvars, k_mutex, wait_for_debugger, to_do, waiting_threads,
                   op, arg, ret, sem, raisevars, runvars, spawned, aborted,
                   auxvars>>

\* ------------------------------------------------ parties outside the file
\* A step or pause controller (a debugger): under the record's lock it
\* re-arms a record that has not exited with another run-state and notifies
\* the record's condition variable.
ControllerSet(t, v) ==
    /\ ~aborted
    /\ t \in k_threads
    /\ mutex[t] = Free
    /\ to_do[t] \notin {"exit", v}
    /\ to_do' = [to_do EXCEPT ![t] = v]
    /\ pc' = Notify(t)
    /\ UNCHANGED <<kvars, k_mutex, wait_for_debugger, waiting_threads, mutex,
                   op, arg, ret, sem, raisevars, runvars, spawned, aborted,
                   auxvars>>

\* Some process is inside the range-for of raise_waiting_threads on record t.
Iterating(t) ==
    \E p \in Procs : RaiseTarget(p) = t /\ pc[p] \in {"raise_lock", "raise_notify"}

\* A thread w starts to wait for the end of thread t: under t's lock, w is
\* appended to t's waiting_threads unless t has exited.  A push_back while
\* raise_waiting_threads iterates the vector without the lock (line 167) is a
\* data race: the iteration goes on over the old range or the process dies.
AddWaiter(t, w) ==
    /\ ~aborted
    /\ t \in k_threads
    /\ w \in k_threads \ {t}
    /\ mutex[t] = Free
    /\ to_do[t] # "exit"
    /\ \A i \in 1..Len(waiting_threads[t]) : waiting_threads[t][i] # w
    /\ waiting_threads' = [waiting_threads EXCEPT ![t] = Append(@, w)]
    /\ aborted' \in (IF Iterating(t) THEN BOOLEAN ELSE {aborted})
    /\ UNCHANGED <<kvars, k_mutex, wait_for_debugger, to_do, mutex, pc, op, arg,
                   ret, sem, raisevars, runvars, spawned, auxvars>>

\* ------------------------------------------------------------------ Next
\* One step of an API thread inside create_thread or start_thread
\* (delete_thread included, which a failed launch runs).
ApiStep(c) ==
    \/ CreateBegin(c)
    \/ CreateEmplaceThreads(c)
    \/ CreateEmplaceWaiting(c)
    \/ \E t \in Tids : StartLockFind(c, t)
    \/ StartSpawn(c)
    \/ StartErase(c)
    \/ StartEmplace(c)
    \/ StartSemWait(c)
    \/ DeleteSetExit(c)
    \/ DeleteNotifyAll(c)
    \/ DeleteJoin(c)
    \/ CallerResume(c)

\* An API thread also destroys entries of the running set.
CallerStep(c) ==
    \/ ApiStep(c)
    \/ \E t \in Tids : DestroyRunning(c, t)

HostStep(t) ==
    \/ ThreadCopyParams(t)
    \/ ThreadSemPost(t)
    \/ ThreadLockAndFind(t)
    \/ ThreadReadDebugger(t)
    \/ ThreadDebuggerWait(t)
    \/ ThreadDebuggerClear(t)
    \/ RunLock(t)
    \/ RunSwitchExit(t)
    \/ RunSwitchRunStep(t)
    \/ RunSwitchWait(t)
    \/ RunSpuriousWake(t)
    \/ RunWake(t)
    \/ RunCheckStep(t)
    \/ RunStep(t)
    \/ RunRun(t)
    \/ RunCheckRes(t)
    \/ ThreadAssert(t)
    \/ ThreadLockExit(t)
    \/ ThreadReturn(t)

RaiseStep(p) ==
    \/ RaiseBegin(p)
    \/ RaiseLock(p)
    \/ RaiseNotify(p)
    \/ RaiseClear(p)

EnvStep ==
    \/ \E t \in Tids, v \in {"run", "step", "wait"} : ControllerSet(t, v)
    \/ \E t \in Tids, w \in Tids : AddWaiter(t, w)

\* The kernel's own API thread.
MainCaller == MaxThreads + 1

\* One API thread, every launched host thread, the controller and the
\* waiters.  Every action is guarded by ~aborted: nothing runs once the
\* process has been terminated.
Next ==
    \/ CallerStep(MainCaller)
    \/ \E t \in Hosts : HostStep(t)
    \/ \E p \in Procs : RaiseStep(p)
    \/ EnvStep

Spec == Init /\ [][Next]_vars

\* NumCallers API threads calling create_thread and start_thread
\* concurrently, every launched host thread, the controller and the
\* waiters; no entry of the running set is destroyed.
NextCallers ==
    \/ \E c \in Callers : ApiStep(c)
    \/ \E t \in Hosts : HostStep(t)
    \/ \E p \in Procs : RaiseStep(p)
    \/ EnvStep

SpecCallers == Init /\ [][NextCallers]_vars

\* ------------------------------------- raise_waiting_threads on its own
\* Every sequence over S without repetition.
InjSeqs(S) ==
    {q \in UNION {[1..n -> S] : n \in 0..Cardinality(S)} :
        \A i, j \in DOMAIN q : i # j => q[i] # q[j]}

\* Every record created and pending, in any run-state; one record has any
\* waiters (a record that has exited takes no waiter, see AddWaiter); no
\* host thread launched, no call in progress.
InitRaise ==
    /\ next_uid = MaxThreads + 1
    /\ k_threads = Tids
    /\ k_waiting_threads = Tids
    /\ k_running_threads = {}
    /\ k_mutex = Free
    /\ wait_for_debugger = FALSE
    /\ to_do \in [Tids -> ToDo]
    /\ \E t \in Tids : \E ws \in InjSeqs(Tids \ {t}) :
         /\ to_do[t] = "exit" => ws = <<>>
         /\ waiting_threads = [u \in Tids |-> IF u = t THEN ws ELSE <<>>]
    /\ mutex = [t \in Tids |-> Free]
    /\ pc = [p \in Procs |-> IF p \in Hosts THEN "h_none" ELSE "idle"]
    /\ op = [c \in Callers |-> "none"]
    /\ arg = [c \in Callers |-> 0]
    /\ ret = [c \in Callers |-> "none"]
    /\ sem = [t \in Tids |-> 0]
    /\ rsnap = [p \in Procs |-> <<>>]
    /\ ri = [p \in Procs |-> 1]
    /\ rdone = [p \in Procs |-> <<>>]
    /\ via = [t \in Tids |-> "none"]
    /\ res = [t \in Tids |-> 0]
    /\ succeeded = [t \in Tids |-> TRUE]
    /\ spawned = [t \in Tids |-> 0]
    /\ aborted = FALSE
    /\ prio_in = 0
    /\ prio_out = <<>>
    /\ CopyIdle
    /\ CtxIdle

\* The API thread calls raise_waiting_threads, again and again.
NextRaise ==
    \/ \E t \in Tids : RaiseCall(MainCaller, t)
    \/ RaiseStep(MainCaller)
    \/ CallerResume(MainCaller)

SpecRaise == InitRaise /\ [][NextRaise]_vars

\* ------------------------------ create_thread's priority (lines 90-95)
\* From the SDK's kernel headers, which are not part of this file.
SCE_KERNEL_DEFAULT_PRIORITY == 268435712
SCE_KERNEL_DEFAULT_PRIORITY_USER_INTERNAL == 160

\* Limits of the 32-bit int.
MaxInt32 == 2147483647
MinInt32 == -2147483647 - 1

\* Bits 28..31 of the two's complement of the 32-bit int x, as 0..15: all
\* that x & 0xF0000000 keeps.
TopNibble(x) ==
    IF x >= 0 THEN x \div 268435456
    ELSE 8 + ((x + 1073741824 + 1073741824) \div 268435456)

\* Bitwise AND of two 4-bit values.
BitAnd4(a, b) ==
    LET bit(v, i) == (v \div (2 ^ i)) % 2
    IN bit(a, 0) * bit(b, 0) + 2 * bit(a, 1) * bit(b, 1)
       + 4 * bit(a, 2) * bit(b, 2) + 8 * bit(a, 3) * bit(b, 3)

\* a - b for b > 0 in 32-bit int arithmetic; an overflow wraps around.
Sub32(a, b) ==
    IF a >= MinInt32 + b THEN a - b
    ELSE (((a - MinInt32) - b) + MaxInt32) + 1

\* Lines 91-95: the priority create_thread stores for init_priority.
NormalizePriority(init_priority) ==
    IF BitAnd4(TopNibble(init_priority),
               TopNibble(SCE_KERNEL_DEFAULT_PRIORITY)) # 0
    THEN Sub32(init_priority, SCE_KERNEL_DEFAULT_PRIORITY)
         + SCE_KERNEL_DEFAULT_PRIORITY_USER_INTERNAL
    ELSE init_priority

\* Values of init_priority tried: around zero, the user priorities, both
\* ends of 0x10000000..0x1FFFFFFF, the default priority, 0x20000000,
\* 0x30000000, 0x50000000 and the negative 0x90000000.
PrioBases ==
    {0, 128, 268435456, SCE_KERNEL_DEFAULT_PRIORITY, 536870912, 805306368,
     1342177280, -1879048192}
PrioInputs ==
    {b + d : b \in PrioBases, d \in (0 - MaxPrioOffset)..MaxPrioOffset}

\* create_thread is called with any of the inputs.
InitPrio ==
    /\ InitKernel
    /\ wait_for_debugger = FALSE
    /\ prio_in \in PrioInputs
    /\ prio_out = <<>>
    /\ CopyIdle
    /\ CtxIdle

\* create_thread up to line 95: thread->priority is set.
PrioCompute ==
    /\ prio_out = <<>>
    /\ prio_out' = <<NormalizePriority(prio_in)>>
    /\ UNCHANGED <<kvars, k_mutex, wait_for_debugger, recvars, pc, op, arg,
                   ret, sem, raisevars, runvars, spawned, aborted, prio_in,
                   copyvars, ctxvars>>

NextPrio == PrioCompute

SpecPrio == InitPrio /\ [][NextPrio]_vars

\* ------------------------------------------- copy_stack (lines 183-205)
Addrs == 0..(AddrSpace - 1)
\* Address arithmetic (uint32_t in the code) wraps around.
AddrAdd(a, b) == (a + b) % AddrSpace
AddrSub(a, b) == (a + AddrSpace - (b % AddrSpace)) % AddrSpace

\* The two records of a copy_stack call: thread_id names the source (old)
\* record, thid the destination (new) one.
Ends == {"old", "new"}

\* The addresses base .. base + size - 1.
Range(base, size) == base..(base + size - 1)

\* Stack allocations of the two records: each of 1..MaxStack bytes, apart
\* from each other, none in the lowest MaxStack addresses (the null page
\* is never allocated) and none reaching the end of the address space.
StackLayouts ==
    {st \in [Ends -> [base : Addrs, size : 1..MaxStack]] :
        /\ \A e \in Ends :
             /\ st[e].base >= MaxStack
             /\ st[e].base + st[e].size < AddrSpace
        /\ Range(st["old"].base, st["old"].size)
             \cap Range(st["new"].base, st["new"].size) = {}}

\* memcpy(dst, src, n) on memory m, copied through a buffer: the result
\* when the two regions do not overlap.
CopyBuffered(m, dst, src, n) ==
    [a \in Addrs |-> IF a \in Range(dst, n) THEN m[src + (a - dst)] ELSE m[a]]

\* memcpy copying byte by byte, lowest address first, from the i-th byte on.
RECURSIVE CopyForward(_, _, _, _, _)
CopyForward(m, dst, src, n, i) ==
    IF i >= n THEN m
    ELSE CopyForward([m EXCEPT ![dst + i] = m[src + i]], dst, src, n, i + 1)

\* memcpy copying byte by byte, highest address first, i bytes left.
RECURSIVE CopyBackward(_, _, _, _)
CopyBackward(m, dst, src, i) ==
    IF i <= 0 THEN m
    ELSE CopyBackward([m EXCEPT ![dst + i - 1] = m[src + i - 1]],
                      dst, src, i - 1)

\* Line 196: what memcpy may leave in memory.  On regions that overlap its
\* behaviour is undefined: any of the usual copy orders.
Memcpy(m, dst, src, n) ==
    IF Range(dst, n) \cap Range(src, n) = {}
    THEN {CopyBuffered(m, dst, src, n)}
    ELSE {CopyBuffered(m, dst, src, n), CopyForward(m, dst, src, n, 0),
          CopyBackward(m, dst, src, n)}

\* Lines 199-203: the argument pointer copy_stack returns.
RelocateArgp(old_stack_address, old_size, new_stack_address, new_size, p) ==
    IF old_stack_address < p /\ AddrAdd(old_stack_address, old_size) > p
    THEN AddrSub(AddrAdd(new_stack_address, new_size),
                 AddrSub(AddrAdd(old_stack_address, old_size), p))
    ELSE p

\* Both records are registered; every byte of memory differs from the
\* others; the source's stack pointer is anywhere from its stack's base to
\* its top, the destination's at its top; argp is any address.
InitCopy ==
    /\ InitKernel
    /\ wait_for_debugger = FALSE
    /\ prio_in = 0
    /\ prio_out = <<>>
    /\ CtxIdle
    /\ mem = [a \in Addrs |-> a + 1]
    /\ stack \in StackLayouts
    /\ \E s \in Addrs :
         /\ s >= stack["old"].base
         /\ s <= stack["old"].base + stack["old"].size
         /\ sp = [e \in Ends |->
                    IF e = "old" THEN s
                    ELSE stack["new"].base + stack["new"].size]
    /\ argp \in Addrs
    /\ new_argp = <<>>

\* Lines 183-205, all under the kernel lock of line 187: the used part of
\* the source stack is copied below the destination's top, the destination
\* CPU's stack pointer is set, the relocated argp is returned.
CopyStack ==
    /\ ~aborted
    /\ new_argp = <<>>
    /\ k_mutex = Free
    /\ LET old_stack_address == stack["old"].base
           new_stack_address == stack["new"].base
           old_sp == sp["old"]
           old_stack_size ==
               AddrSub(AddrAdd(old_stack_address, stack["old"].size), old_sp)
           new_sp ==
               AddrSub(AddrAdd(new_stack_address, stack["new"].size),
                       old_stack_size)
       IN /\ mem' \in Memcpy(mem, new_sp, old_sp, old_stack_size)
          /\ sp' = [sp EXCEPT !["new"] = new_sp]
          /\ new_argp' = <<RelocateArgp(old_stack_address, stack["old"].size,
                                        new_stack_address, stack["new"].size,
                                        argp)>>
    /\ UNCHANGED <<kvars, k_mutex, wait_for_debugger, recvars, pc, op, arg,
                   ret, sem, raisevars, runvars, spawned, aborted, priovars,
                   stack, argp, ctxvars>>

NextCopy == CopyStack

SpecCopy == InitCopy /\ [][NextCopy]_vars

\* --------------------- create_thread's CPU set-up (lines 102-124)
\* Line 122: size of a thread's TLS block (0x800).
TlsSize == 2048

\* What option may point to: nothing, or a SceKernelThreadOptParam.
Options ==
    {<<>>} \cup {<<o>> : o \in [attr : 0..MaxOptVal, size : 0..MaxOptVal]}

\* Addresses alloc may return for the TLS block.
TlsBlocks == {2 * TlsSize * k : k \in 1..MaxBlocks}

\* create_thread has come past init_cpu (line 102) with a CPU whose r0, r1
\* and thread-pointer register are still zero; option is any of Options and
\* the allocator will answer the TLS request with any of TlsBlocks.
InitCtx ==
    /\ InitKernel
    /\ wait_for_debugger = FALSE
    /\ prio_in = 0
    /\ prio_out = <<>>
    /\ CopyIdle
    /\ option \in Options
    /\ cpu = [r0 |-> 0, r1 |-> 0, tpidruro |-> 0]
    /\ cpu_context = <<>>
    /\ tls_block \in TlsBlocks

\* Lines 113-118: write option->attr and option->size to r0 and r1 when
\* option is not null, then cpu_context = save_context(cpu).
CtxSaveContext ==
    /\ ~aborted
    /\ cpu # <<>>
    /\ cpu_context = <<>>
    /\ LET written == IF option = <<>> THEN cpu
                      ELSE [cpu EXCEPT !.r0 = option[1].attr,
                                       !.r1 = option[1].size]
       IN /\ cpu' = written
          /\ cpu_context' = <<written>>
    /\ UNCHANGED <<kvars, k_mutex, wait_for_debugger, recvars, pc, op, arg,
                   ret, sem, raisevars, runvars, spawned, aborted, priovars,
                   copyvars, option, tls_block>>

\* Lines 120-124: allocate the TLS block, write_tpidruro(cpu, block + 0x800).
CtxProgramTls ==
    /\ ~aborted
    /\ cpu_context # <<>>
    /\ cpu.tpidruro = 0
    /\ cpu' = [cpu EXCEPT !.tpidruro = tls_block + TlsSize]
    /\ UNCHANGED <<kvars, k_mutex, wait_for_debugger, recvars, pc, op, arg,
                   ret, sem, raisevars, runvars, spawned, aborted, priovars,
                   copyvars, option, cpu_context, tls_block>>

NextCtx ==
    \/ CtxSaveContext
    \/ CtxProgramTls

SpecCtx == InitCtx /\ [][NextCtx]_vars

\* ----------------------------------------------- fair scheduling
\* The host schedules every host thread that can take a step: a spawned
\* trampoline runs on, and a start_thread whose semaphore has been posted
\* returns.  Nothing obliges the kernel's callers, the controller or the
\* waiters to act.
Fairness ==
    /\ \A t \in Hosts : WF_vars(HostStep(t))
    /\ \A c \in Callers : WF_vars(StartErase(c) \/ StartEmplace(c) \/ StartSemWait(c))

SpecFair == Spec /\ Fairness

\* ================================================================ claims

\* C1: once a record's to_do has been set to exit it never afterwards takes
\* the value run, step or wait.
C1_ExitIsMonotonic ==
    [][\A t \in Tids : to_do[t] = "exit" => to_do'[t] = "exit"]_vars

\* The kernel lock is held by a call that is working on thread ID t: what
\* that call has done to t so far no other party can look at.
Hidden(t) == \E c \in Callers : k_mutex = c /\ arg[c] = t
\* A start_thread has erased t from the pending set and not yet inserted it
\* into the running set.
Moving(t) == \E c \in Callers : pc[c] = "st_emplace" /\ arg[c] = t
\* Caller c's call returns status r in this step.
Returns(c, r) == ret[c] # r /\ ret'[c] = r

\* C2: in every state a holder of the kernel lock can observe, no thread ID
\* is in both the pending and the running set nor between the two, and when
\* start_thread returns SCE_KERNEL_OK the ID has left the pending set and is
\* in the running set.
C2_AtomicPendingToRunning ==
    /\ [](\A t \in Tids : ~Hidden(t) =>
            /\ ~(t \in k_waiting_threads /\ t \in k_running_threads)
            /\ ~Moving(t))
    /\ [][\A c \in Callers : Returns(c, "SCE_KERNEL_OK") =>
            /\ arg[c] \in k_running_threads'
            /\ arg[c] \notin k_waiting_threads']_vars

\* The trampoline of the thread being moved is already waiting for the
\* kernel lock while its ID is in neither set.
C2_Witness ==
    \E c \in Callers :
        /\ pc[c] = "st_emplace"
        /\ pc[arg[c]] = "t_find"
        /\ arg[c] \notin k_waiting_threads \cup k_running_threads

\* Caller c enters start_thread in this step.
StartCall(c) == pc[c] = "idle" /\ op'[c] = "start_thread"

\* C3: start_thread on an ID that is not in the pending set returns
\* SCE_KERNEL_ERROR_UNKNOWN_THREAD_ID, spawns no host thread and changes
\* neither the thread table nor the pending or running set; no thread ID
\* ever has more than one host thread spawned for it.
C3_UnknownThreadNoEffect ==
    /\ [][\A c \in Callers :
            (StartCall(c) /\ arg'[c] \notin k_waiting_threads) =>
                /\ ret'[c] = "SCE_KERNEL_ERROR_UNKNOWN_THREAD_ID"
                /\ pc'[c] = "returned"
                /\ UNCHANGED <<kvars, spawned>>
                /\ \A t \in Hosts : pc'[t] = pc[t]]_vars
    /\ [](\A t \in Tids : spawned[t] <= 1)

\* Two callers asked for the same ID: one launched it, the other was told
\* the ID is unknown.
C3_Witness ==
    \E c, d \in Callers :
        /\ ret[c] = "SCE_KERNEL_OK"
        /\ ret[d] = "SCE_KERNEL_ERROR_UNKNOWN_THREAD_ID"
        /\ arg[c] = arg[d]
        /\ spawned[arg[c]] = 1

\* C4: when host-thread creation fails inside start_thread, the call returns
\* SCE_KERNEL_ERROR_THREAD_ERROR with the ID still pending and not running,
\* and the failed call neither changes any record's to_do nor clears any
\* waiter set.
C4_FailedLaunchLeavesRecord ==
    /\ [](\A c \in Callers : ret[c] = "SCE_KERNEL_ERROR_THREAD_ERROR" =>
            /\ arg[c] \in k_waiting_threads
            /\ arg[c] \notin k_running_threads
            /\ to_do[arg[c]] # "exit")
    /\ [][\A c \in Callers :
            (op[c] = "start_thread" /\ pc'[c] # pc[c]
                /\ pc[c] \in {"del_lock", "del_notify", "raise_begin",
                              "raise_lock", "raise_notify", "raise_clear"}) =>
                UNCHANGED <<to_do, waiting_threads>>]_vars

\* C5: once delete_thread has returned from tearing down a running-set
\* entry, the record's to_do is exit and its waiter set is empty.
C5_TeardownLeavesExit ==
    \A c \in Callers : ret[c] = "DESTROYED" =>
        /\ to_do[arg[c]] = "exit"
        /\ waiting_threads[arg[c]] = <<>>

\* A teardown has returned.
C5_Witness ==
    \E c \in Callers : ret[c] = "DESTROYED" /\ pc[arg[c]] = "h_done"

\* C6: raise_waiting_threads on a record with N waiters notifies each waiter
\* once, in turn, holding that waiter's lock at the notification; it leaves
\* the record's waiter set empty and changes no run-state; called on a
\* record without waiters it notifies nobody and changes nothing.
C6_RaiseNotifiesEachOnce ==
    /\ [](\A p \in Callers :
            /\ pc[p] \in {"raise_lock", "raise_notify", "raise_clear"} =>
                 /\ rsnap[p] = waiting_threads[arg[p]]
                 /\ rdone[p] = SubSeq(rsnap[p], 1, Len(rdone[p]))
            /\ pc[p] = "raise_notify" => mutex[rsnap[p][ri[p]]] = p
            /\ pc[p] = "raise_clear" => rdone[p] = waiting_threads[arg[p]])
    /\ [][/\ to_do' = to_do
          /\ \A p \in Callers :
               /\ (pc[p] = "raise_notify" /\ pc'[p] # pc[p]) =>
                     /\ Len(rdone'[p]) = Len(rdone[p]) + 1
                     /\ mutex[rdone'[p][Len(rdone'[p])]] = p
               /\ (pc[p] = "raise_clear" /\ pc'[p] # pc[p]) =>
                     /\ waiting_threads'[arg[p]] = <<>>
                     /\ mutex' = mutex
                     /\ rsnap[p] = <<>> => waiting_threads' = waiting_threads
               /\ (pc[p] = "raise_begin" /\ pc'[p] # pc[p]
                     /\ waiting_threads[arg[p]] = <<>>) =>
                     /\ pc'[p] = "raise_clear"
                     /\ rdone'[p] = <<>>]_vars

\* Both waiters of a record have been notified and the set is about to be
\* cleared.
C6_Witness ==
    \E p \in Callers :
        /\ pc[p] = "raise_clear"
        /\ Len(rdone[p]) = MaxThreads - 1
        /\ rdone[p] = waiting_threads[arg[p]]

\* C7: when the backend call of run_thread (run or step) has returned a
\* negative result, run_thread sets to_do to exit and returns false,
\* whatever to_do holds at that moment.
C7_BackendFailureExits ==
    [][\A t \in Tids :
         (pc[t] = "r_check_res" /\ res[t] < 0 /\ pc'[t] # pc[t]) =>
            /\ to_do'[t] = "exit"
            /\ pc'[t] = "t_assert"
            /\ ~succeeded'[t]]_vars

\* run_thread has returned false to the trampoline and has left to_do =
\* exit behind.
C7_Witness ==
    \E t \in Tids :
        /\ pc[t] = "t_assert"
        /\ ~succeeded[t]
        /\ to_do[t] = "exit"

\* C8: after a single-step call that did not fail, run_thread stays in its
\* loop (it goes back to the switch, where to_do = wait blocks it on the
\* condition variable) and does not return to the trampoline.
C8_StepStaysInLoop ==
    [][\A t \in Tids :
         (pc[t] = "r_check_res" /\ via[t] = "step" /\ res[t] >= 0
             /\ pc'[t] # pc[t]) => pc'[t] = "r_switch"]_vars

\* init_priority lies in 0x10000000..0x1FFFFFFF, the range of
\* SCE_KERNEL_DEFAULT_PRIORITY.
InDefaultRange(x) == TopNibble(x) = TopNibble(SCE_KERNEL_DEFAULT_PRIORITY)

\* C9: the priority stored for init_priority is init_priority itself,
\* unless init_priority lies in the default-priority range, and then it is
\* init_priority - SCE_KERNEL_DEFAULT_PRIORITY
\* + SCE_KERNEL_DEFAULT_PRIORITY_USER_INTERNAL.
C9_PriorityNormalized ==
    prio_out # <<>> =>
        prio_out[1] = IF InDefaultRange(prio_in)
                      THEN prio_in - SCE_KERNEL_DEFAULT_PRIORITY
                           + SCE_KERNEL_DEFAULT_PRIORITY_USER_INTERNAL
                      ELSE prio_in

\* C10: a create_thread whose init_cpu fails returns SCE_KERNEL_ERROR_ERROR
\* and its ID enters neither the thread table nor the pending set; a
\* successful one inserts the ID into both while it holds the kernel lock,
\* so that whenever the lock is not held by a call working on the ID, an ID
\* never launched is in the table exactly if it is pending.
C10_CreateRegistersAtomically ==
    /\ [](\A c \in Callers :
            /\ ret[c] = "SCE_KERNEL_ERROR_ERROR" =>
                 arg[c] \notin k_threads \cup k_waiting_threads
            /\ pc[c] = "cr_emplaced" => k_mutex = c
            /\ ret[c] = "THID" => arg[c] \in k_threads)
    /\ [](\A t \in Tids : ~Hidden(t) =>
            /\ t \in k_waiting_threads => t \in k_threads
            /\ (t \in k_threads /\ spawned[t] = 0) => t \in k_waiting_threads)
    /\ [][\A c \in Callers :
            /\ Returns(c, "SCE_KERNEL_ERROR_ERROR") =>
                 UNCHANGED <<k_threads, k_waiting_threads, k_running_threads>>
            /\ Returns(c, "THID") =>
                 arg[c] \in k_threads' \cap k_waiting_threads']_vars

\* One caller's create_thread has failed, leaving its ID unregistered, and
\* another caller's create_thread is between its two insertions.
C10_Witness ==
    \E c, d \in Callers :
        /\ ret[c] = "SCE_KERNEL_ERROR_ERROR"
        /\ arg[c] \notin k_threads
        /\ pc[d] = "cr_emplaced"
        /\ arg[d] \in k_threads \ k_waiting_threads

\* Caller c is inside create_thread or has just returned from it.
InCreate(c) == op[c] = "create_thread"

InDebuggerBranch(t) == pc[t] \in {"t_dbg_wait", "t_dbg_clear"}

\* C14: of the trampolines that run after wait_for_debugger was set, no two
\* take the pause branch (lines 54-56): only one sets its to_do to wait.
C14_OneShotDebuggerPause ==
    \A t, u \in Hosts :
        (InDebuggerBranch(t) /\ InDebuggerBranch(u)) => t = u

\* Host thread t writes its own record's to_do in this step (lines 54, 63,
\* 222, 234).
WritesOwnToDo(t) ==
    /\ pc'[t] # pc[t]
    /\ \/ pc[t] \in {"t_dbg_wait", "t_lock_exit"}
       \/ pc[t] = "r_backend" /\ via[t] = "step"
       \/ pc[t] = "r_check_res" /\ res[t] < 0

\* Process p clears the waiter set of the record it raises (line 140).
ClearsWaiters(p) == pc[p] = "raise_clear" /\ pc'[p] # pc[p]

\* C15: a host thread that writes its record's to_do holds the record's lock
\* while it does, and whoever clears a record's waiter set holds that
\* record's lock.
C15_WritesUnderRecordLock ==
    [][/\ \A t \in Hosts :
            WritesOwnToDo(t) => (mutex[t] = t \/ mutex'[t] = t)
       /\ \A p \in Procs :
            ClearsWaiters(p) => mutex[RaiseTarget(p)] = p]_vars

\* Record locks process p holds.
HeldBy(p) == {t \in Tids : mutex[t] = p}

\* C16: no host thread holds two record locks at the same time.
C16_OneRecordLockAtATime ==
    \A p \in Procs : Cardinality(HeldBy(p)) <= 1

\* C17: once teardown of a running-set entry has set exit and notified
\* (delete_thread waits in SDL_WaitThread), the host thread is not blocked on
\* the condition variable with the record's to_do at wait, a state that only
\* another party's re-arming could end.
C17_CancelledThreadNotStuck ==
    \A c \in Callers :
        (op[c] = "destroy" /\ pc[c] = "del_join") =>
            ~(pc[arg[c]] = "r_cvwait" /\ to_do[arg[c]] = "wait")

\* C18: run_thread holds the record's lock whenever it evaluates the switch
\* of line 211, which is where it goes on to unlock before a backend call or
\* to enter the condition wait.
C18_SwitchUnderLock ==
    \A t \in Hosts : pc[t] = "r_switch" => OwnsLock(t)

\* Top of the stack of record e.
StackTop(e) == stack[e].base + stack[e].size

\* argp points into the source stack [base, base + stack_size).
InSourceStack(p) == p >= stack["old"].base /\ p < StackTop("old")

\* C12: the pointer copy_stack returns is dest_top - (source_top - argp)
\* when argp lies in the source stack's range, and argp itself otherwise.
C12_ArgpRelocated ==
    new_argp # <<>> =>
        new_argp[1] = IF InSourceStack(argp)
                      THEN StackTop("new") - (StackTop("old") - argp)
                      ELSE argp

\* copy_stack runs in this step.
CopyStackStep == new_argp = <<>> /\ new_argp' # <<>>

\* C13: with K = source_top - source_sp, copy_stack leaves the K bytes below
\* dest_top equal to the K bytes that were below source_top, the
\* destination's stack pointer at dest_top - K, and the source's stack and
\* stack pointer as they were.
C13_StackCopied ==
    [][CopyStackStep =>
        LET K == StackTop("old") - sp["old"]
        IN /\ \A i \in 1..K :
                mem'[StackTop("new") - i] = mem[StackTop("old") - i]
           /\ sp'["new"] = StackTop("new") - K
           /\ sp'["old"] = sp["old"]
           /\ \A a \in Range(stack["old"].base, stack["old"].size) :
                mem'[a] = mem[a]]_vars

\* create_thread has come to line 126: the CPU set-up is complete.
CtxSetUpDone == cpu # <<>> /\ cpu.tpidruro # 0

\* C19: when create_thread's CPU set-up is complete, the context snapshot
\* stored in the record holds the option registers and the thread-pointer
\* register at TLS block + 2048, as the CPU does.
C19_SnapshotHasTlsPointer ==
    CtxSetUpDone =>
        /\ cpu.tpidruro = tls_block + TlsSize
        /\ cpu_context[1].tpidruro = tls_block + TlsSize
        /\ option # <<>> =>
             /\ cpu_context[1].r0 = option[1].attr
             /\ cpu_context[1].r1 = option[1].size

\* Caller c's start_thread frame, which holds the parameter bundle, exists
\* for the launch of t.
BundleAlive(c, t) ==
    arg[c] = t /\ pc[c] \in {"st_erase", "st_emplace", "st_semwait"}

\* C20: the trampoline copies the parameter bundle while the start_thread
\* that made it has not returned; start_thread returns SCE_KERNEL_OK only
\* after that copy; the trampoline takes the kernel lock to resolve its
\* record only when its ID has left the pending set and entered the running
\* set; and a start_thread waiting for the handshake eventually returns
\* SCE_KERNEL_OK (unless the process is terminated meanwhile).
C20_LaunchRendezvous ==
    /\ [](\A t \in Hosts : pc[t] = "t_copy" =>
            \E c \in Callers : BundleAlive(c, t))
    /\ [][\A c \in Callers : Returns(c, "SCE_KERNEL_OK") =>
            /\ pc[arg[c]] \notin {"h_none", "t_copy"}
            /\ arg[c] \in k_running_threads]_vars
    /\ [][\A t \in Hosts : (pc[t] = "t_find" /\ pc'[t] # pc[t]) =>
            /\ t \notin k_waiting_threads
            /\ ~Moving(t)
            /\ \A c \in Callers : ~BundleAlive(c, t)]_vars
    /\ \A c \in Callers :
         (pc[c] = "st_semwait") ~> (ret[c] = "SCE_KERNEL_OK" \/ aborted)

\* start_thread is blocked in SDL_SemWait holding the kernel lock while the
\* trampoline has not yet copied the bundle.
C20_Witness ==
    \E c \in Callers :
        /\ pc[c] = "st_semwait"
        /\ k_mutex = c
        /\ pc[arg[c]] = "t_copy"
        /\ sem[arg[c]] = 0

====
